---- MODULE Spec2Model ----
(***************************************************************************)
(* Model of film-fan-finder: the profile store (ProfileProvider), the tag  *)
(* extraction (extractTagsFromMovies), the tag based recommendations       *)
(* (getTagBasedRecommendations) and the other catalog operations.          *)
(*                                                                         *)
(* JavaScript values are modelled as follows: an object is a function from *)
(* its own property names to values (a property that is missing is not in  *)
(* the DOMAIN), an array is a sequence, a string that the code takes apart *)
(* is a sequence of one-character strings, undefined and null are the two  *)
(* values Undefined and Null.                                              *)
(***************************************************************************)
EXTENDS Integers, Sequences, FiniteSets, Bags, TLC

VARIABLES profile, storage, last, queue, mounted, effectPending,
          exPc, exMovies, exArray, exGenres, exGenreMap, exTags,
          recPc, recInput, recExcluded, recCatalog, recGenreIds, recRequest, recResult,
          catPending, catCall, catResponse, catRequest, catResult

storeVars == <<profile, storage, last>>
batchVars == <<queue, mounted, effectPending>>
exVars == <<exPc, exMovies, exArray, exGenres, exGenreMap, exTags>>
recVars == <<recPc, recInput, recExcluded, recCatalog, recGenreIds, recRequest, recResult>>
catVars == <<catPending, catCall, catResponse, catRequest, catResult>>
vars == <<profile, storage, last, queue, mounted, effectPending,
          exPc, exMovies, exArray, exGenres, exGenreMap, exTags,
          recPc, recInput, recExcluded, recCatalog, recGenreIds, recRequest, recResult,
          catPending, catCall, catResponse, catRequest, catResult>>

-----------------------------------------------------------------------------
(* Bounds of the model *)

MaxMovieId == 2
MaxMovies == 2
MaxGenresPerMovie == 2
MaxTags == 2
MaxExcluded == 1

\* catalog calls waiting for their response at the same time
MaxInFlight == 2

\* setProfile calls between two renders
MaxQueue == 2

\* setProfile calls waiting while the effect of the last render has not run
MaxQueueBeforeEffect == 1

-----------------------------------------------------------------------------
(* JavaScript values *)

Undefined == "<undefined>"
Null == "<null>"

\* obj.key: a missing property reads as undefined
Get(obj, key) == IF key \in DOMAIN obj THEN obj[key] ELSE Undefined

\* A property that holds an array or null is read as a value with its type:
\* JsArray(items), JsNull, and JsUndefined when the property is missing.
JsNull == [type |-> "null"]
JsUndefined == [type |-> "undefined"]
JsArray(items) == [type |-> "array", items |-> items]
Prop(obj, key) == IF key \in DOMAIN obj THEN obj[key] ELSE JsUndefined

\* if (value): an array, the empty one too, passes; undefined and null do not
Truthy(value) == value.type \notin {"undefined", "null"}

\* {...obj, key: value}
Spread(obj, key, value) ==
    [k \in (DOMAIN obj) \cup {key} |-> IF k = key THEN value ELSE obj[k]]

\* array.some(m => m.id === id)
SomeId(array, id) == \E i \in 1..Len(array) : array[i].id = id

\* array.filter(m => m.id !== id)
FilterOutId(array, id) ==
    LET keep(m) == m.id # id IN SelectSeq(array, keep)

Range(s) == {s[i] : i \in 1..Len(s)}

SeqsUpTo(S, n) == UNION {[1..k -> S] : k \in 0..n}

Ids(array) == {array[i].id : i \in 1..Len(array)}

\* String(n) for a non negative integer, as a sequence of characters
Digit(d) == CASE d = 0 -> "0" [] d = 1 -> "1" [] d = 2 -> "2" [] d = 3 -> "3"
              [] d = 4 -> "4" [] d = 5 -> "5" [] d = 6 -> "6" [] d = 7 -> "7"
              [] d = 8 -> "8" [] d = 9 -> "9"

RECURSIVE NumberToString(_)
NumberToString(n) ==
    IF n < 10 THEN <<Digit(n)>> ELSE NumberToString(n \div 10) \o <<Digit(n % 10)>>

GenrePrefix == <<"g", "e", "n", "r", "e", "-">>

\* `genre-${genreId}`
GenreTagId(genreId) == GenrePrefix \o NumberToString(genreId)

-----------------------------------------------------------------------------
(* The data the store is fed with *)

MovieIds == 1..MaxMovieId

\* Movie records as the catalog delivers them: poster_path is nullable
StoreMovie(id) == [id |-> id, poster_path |-> IF id % 2 = 1 THEN Null ELSE "/poster.jpg"]
StoreMovies == {StoreMovie(id) : id \in MovieIds}

\* Tags handed to addTag: two tags share the id genre-18
StoreTag(genreId, name, source) ==
    [id |-> GenreTagId(genreId), name |-> name, source |-> source, type |-> "genre"]
StoreTags == {StoreTag(18, "Drama", "auto"), StoreTag(18, "Slow", "manual"),
              StoreTag(35, "Comedy", "auto")}
StoreTagIds == {tag.id : tag \in StoreTags}

Moods == {"happy", "sad", "excited", "relaxed", "thoughtful", "tense"}

\* Moods handed to setCurrentMood
StoreMoods == {"happy", "sad"}

-----------------------------------------------------------------------------
(* ProfileProvider: the reducers handed to setProfile *)

initialProfile ==
    [likedMovies |-> <<>>, dislikedMovies |-> <<>>, avoidedMovies |-> <<>>,
     tags |-> <<>>, currentMood |-> Undefined]

isAlreadyLiked(prev, movie) == SomeId(prev.likedMovies, movie.id)

\* addLikedMovie that forgets to take the movie out of dislikedMovies
addLikedMovie_KeepsDisliked(prev, movie) ==
    IF isAlreadyLiked(prev, movie) THEN prev
    ELSE Spread(Spread(prev,
             "likedMovies", Append(prev.likedMovies, movie)),
             "avoidedMovies", FilterOutId(prev.avoidedMovies, movie.id))

addLikedMovie(prev, movie) ==
    LET filteredDisliked == FilterOutId(prev.dislikedMovies, movie.id)
        filteredAvoided == FilterOutId(prev.avoidedMovies, movie.id)
    IN  IF isAlreadyLiked(prev, movie) THEN prev
        ELSE Spread(Spread(Spread(prev,
                 "likedMovies", Append(prev.likedMovies, movie)),
                 "dislikedMovies", filteredDisliked),
                 "avoidedMovies", filteredAvoided)

removeLikedMovie(prev, movieId) ==
    Spread(prev, "likedMovies", FilterOutId(prev.likedMovies, movieId))

\* the check of addDislikedMovie looking into likedMovies
isAlreadyDisliked_ChecksLiked(prev, movie) == SomeId(prev.likedMovies, movie.id)

isAlreadyDisliked(prev, movie) == SomeId(prev.dislikedMovies, movie.id)

addDislikedMovie(prev, movie) ==
    LET filteredLiked == FilterOutId(prev.likedMovies, movie.id)
        filteredAvoided == FilterOutId(prev.avoidedMovies, movie.id)
    IN  IF isAlreadyDisliked(prev, movie) THEN prev
        ELSE Spread(Spread(Spread(prev,
                 "dislikedMovies", Append(prev.dislikedMovies, movie)),
                 "likedMovies", filteredLiked),
                 "avoidedMovies", filteredAvoided)

removeDislikedMovie(prev, movieId) ==
    Spread(prev, "dislikedMovies", FilterOutId(prev.dislikedMovies, movieId))

\* the check that the movie is already avoided left out
isAlreadyAvoided_Never(prev, movie) == FALSE

isAlreadyAvoided(prev, movie) == SomeId(prev.avoidedMovies, movie.id)

\* addAvoidedMovie that forgets to take the movie out of likedMovies
addAvoidedMovie_KeepsLiked(prev, movie) ==
    IF isAlreadyAvoided(prev, movie) THEN prev
    ELSE Spread(Spread(prev,
             "avoidedMovies", Append(prev.avoidedMovies, movie)),
             "dislikedMovies", FilterOutId(prev.dislikedMovies, movie.id))

addAvoidedMovie(prev, movie) ==
    LET filteredLiked == FilterOutId(prev.likedMovies, movie.id)
        filteredDisliked == FilterOutId(prev.dislikedMovies, movie.id)
    IN  IF isAlreadyAvoided(prev, movie) THEN prev
        ELSE Spread(Spread(Spread(prev,
                 "avoidedMovies", Append(prev.avoidedMovies, movie)),
                 "likedMovies", filteredLiked),
                 "dislikedMovies", filteredDisliked)

removeAvoidedMovie(prev, movieId) ==
    Spread(prev, "avoidedMovies", FilterOutId(prev.avoidedMovies, movieId))

\* the check of addTag comparing whole tags instead of their ids
tagExists_SameObject(prev, tag) == \E i \in 1..Len(prev.tags) : prev.tags[i] = tag

tagExists(prev, tag) == SomeId(prev.tags, tag.id)

addTag(prev, tag) ==
    IF tagExists(prev, tag) THEN prev
    ELSE Spread(prev, "tags", Append(prev.tags, tag))

\* removeTag with the test of its filter inverted
removeTag_KeepsMatching(prev, tagId) ==
    LET keep(t) == t.id = tagId IN Spread(prev, "tags", SelectSeq(prev.tags, keep))

removeTag(prev, tagId) ==
    Spread(prev, "tags", FilterOutId(prev.tags, tagId))

setCurrentMood(prev, mood) == Spread(prev, "currentMood", mood)

clearProfile_KeepsMood(prev) ==
    Spread(initialProfile, "currentMood", Get(prev, "currentMood"))

clearProfile(prev) == initialProfile

-----------------------------------------------------------------------------
(* JSON.stringify and JSON.parse of the profile.  The text is modelled by  *)
(* its syntax tree: an object is the list of its members in property       *)
(* order, a number is its decimal digits, a string is a string literal,    *)
(* null is the literal null.  A property whose value is undefined is left  *)
(* out of the text.                                                        *)

JsonString(s) == [json |-> "string", chars |-> s]
JsonArray(items) == [json |-> "array", items |-> items]
JsonObject(members) == [json |-> "object", members |-> members]

\* null written as the string "null"
StringifyNullableString_Quoted(s) == JsonString(IF s = Null THEN "null" ELSE s)

StringifyNullableString(s) == IF s = Null THEN [json |-> "null"] ELSE JsonString(s)

StringifyMovie(movie) ==
    JsonObject(<< <<"id", [json |-> "number", digits |-> NumberToString(movie.id)]>>,
                  <<"poster_path", StringifyNullableString(movie.poster_path)>> >>)

StringifyTag(tag) ==
    JsonObject(<< <<"id", JsonString(tag.id)>>,
                  <<"name", JsonString(tag.name)>>,
                  <<"source", JsonString(tag.source)>>,
                  <<"type", JsonString(tag.type)>> >>)

StringifyMovies(movies) ==
    JsonArray([i \in 1..Len(movies) |-> StringifyMovie(movies[i])])

StringifyTags(tags) ==
    JsonArray([i \in 1..Len(tags) |-> StringifyTag(tags[i])])

\* JSON.stringify(profile)
JSONstringify(p) ==
    JsonObject(
        << <<"likedMovies", StringifyMovies(p.likedMovies)>>,
           <<"dislikedMovies", StringifyMovies(p.dislikedMovies)>>,
           <<"avoidedMovies", StringifyMovies(p.avoidedMovies)>>,
           <<"tags", StringifyTags(p.tags)>> >>
        \o (IF Get(p, "currentMood") = Undefined THEN <<>>
            ELSE << <<"currentMood", JsonString(p.currentMood)>> >>))

DigitValue(c) == CHOOSE d \in 0..9 : Digit(d) = c

RECURSIVE ParseNumber(_)
ParseNumber(digits) ==
    IF Len(digits) = 1 THEN DigitValue(digits[1])
    ELSE 10 * ParseNumber(SubSeq(digits, 1, Len(digits) - 1))
         + DigitValue(digits[Len(digits)])

\* JSON.parse(text)
RECURSIVE JSONparse(_)
JSONparse(node) ==
    CASE node.json = "number" -> ParseNumber(node.digits)
      [] node.json = "string" -> node.chars
      [] node.json = "null" -> Null
      [] node.json = "array" ->
            [i \in 1..Len(node.items) |-> JSONparse(node.items[i])]
      [] node.json = "object" ->
            LET ms == node.members
                member(k) == CHOOSE i \in 1..Len(ms) :
                                 /\ ms[i][1] = k
                                 /\ \A j \in (i + 1)..Len(ms) : ms[j][1] # k
            IN  [k \in {ms[i][1] : i \in 1..Len(ms)} |-> JSONparse(ms[member(k)][2])]

\* localStorage.getItem of a key that was never set returns null
NoItem == [json |-> "none"]

\* useState initializer: savedProfile ? JSON.parse(savedProfile) : initialProfile
LoadProfile(savedProfile) ==
    IF savedProfile.json = "none" THEN initialProfile ELSE JSONparse(savedProfile)

-----------------------------------------------------------------------------
(* getGenres and extractTagsFromMovies.  A catalog response is either an   *)
(* error (network failure or non-success status: axios throws) or a        *)
(* payload; the payload of the genre list may lack the property genres.    *)
(* The Map is the sequence of its entries <<key, value>> in insertion      *)
(* order.                                                                  *)

ExGenreIds == {18, 35}

Genre(id, name) == [id |-> id, name |-> name]

GenreResponses ==
    {[kind |-> "error"], [kind |-> "ok", data |-> [status_message |-> "none"]]}
    \cup {[kind |-> "ok", data |-> [genres |-> gs]] :
             gs \in {<<>>, <<Genre(18, "Drama")>>,
                     <<Genre(18, "Drama"), Genre(35, "Comedy")>>,
                     <<Genre(35, ""), Genre(18, "Drama")>>}}

getGenres(response) ==
    IF response.kind = "error" THEN <<>> ELSE Get(response.data, "genres")

MapHas(map, key) == \E i \in 1..Len(map) : map[i][1] = key

MapGet(map, key) ==
    IF MapHas(map, key)
    THEN map[CHOOSE i \in 1..Len(map) : map[i][1] = key][2]
    ELSE Undefined

MapSet(map, key, value) ==
    IF MapHas(map, key)
    THEN [i \in 1..Len(map) |-> IF map[i][1] = key THEN <<key, value>> ELSE map[i]]
    ELSE Append(map, <<key, value>>)

\* genreIds.forEach(genreId => genreMap.set(genreId, (genreMap.get(genreId) || 0) + 1))
RECURSIVE CountGenreIds(_, _)
CountGenreIds(genreMap, genreIds) ==
    IF genreIds = <<>> THEN genreMap
    ELSE LET genreId == Head(genreIds)
             current == IF MapHas(genreMap, genreId) THEN MapGet(genreMap, genreId) ELSE 0
         IN  CountGenreIds(MapSet(genreMap, genreId, current + 1), Tail(genreIds))

\* the genre ids read from one movie: if (movie.genre_ids) the ids of that
\* list, else if (movie.genres) the ids of those records
MovieGenreIds(movie) ==
    IF Truthy(Prop(movie, "genre_ids")) THEN movie.genre_ids.items
    ELSE IF Truthy(Prop(movie, "genres"))
         THEN [i \in 1..Len(movie.genres.items) |-> movie.genres.items[i].id]
         ELSE <<>>

\* movies.forEach(movie => ...)
RECURSIVE CollectGenreIds(_, _)
CollectGenreIds(genreMap, movies) ==
    IF movies = <<>> THEN genreMap
    ELSE CollectGenreIds(CountGenreIds(genreMap, MovieGenreIds(Head(movies))),
                         Tail(movies))

\* entries.sort((a, b) => b[1] - a[1]): a stable sort, larger counts first
RECURSIVE InsertByCount(_, _)
InsertByCount(sorted, entry) ==
    IF sorted = <<>> THEN <<entry>>
    ELSE IF Head(sorted)[2] - entry[2] < 0 THEN <<entry>> \o sorted
         ELSE <<Head(sorted)>> \o InsertByCount(Tail(sorted), entry)

RECURSIVE SortByCount(_)
SortByCount(entries) ==
    IF entries = <<>> THEN <<>>
    ELSE InsertByCount(SortByCount(SubSeq(entries, 1, Len(entries) - 1)),
                       entries[Len(entries)])

\* genres.find(g => g.id === genreId)
Find(genres, genreId) ==
    IF SomeId(genres, genreId)
    THEN genres[CHOOSE i \in 1..Len(genres) :
                    /\ genres[i].id = genreId
                    /\ \A j \in 1..(i - 1) : genres[j].id # genreId]
    ELSE Undefined

\* genre?.name || 'Unknown Genre'
GenreName(genres, genreId) ==
    IF ~SomeId(genres, genreId) \/ Find(genres, genreId).name = ""
    THEN "Unknown Genre"
    ELSE Find(genres, genreId).name

GenreTag(genres, genreId) ==
    [id |-> GenreTagId(genreId), name |-> GenreName(genres, genreId),
     source |-> "auto", type |-> "genre"]

Fulfilled(value) == [status |-> "fulfilled", value |-> value]
Rejected(error) == [status |-> "rejected", error |-> error]
Pending == [status |-> "pending"]

\* the promise extractTagsFromMovies(movies) settles to, given the response
\* of the catalog to the genre list request
extractTagsFromMovies(movies, response) ==
    LET genres == getGenres(response)
        genreMap == CollectGenreIds(<<>>, movies)
        entries == SortByCount(genreMap)
    IN  IF entries # <<>> /\ genres = Undefined
        THEN Rejected("TypeError")
        ELSE Fulfilled([i \in 1..Len(entries) |-> GenreTag(genres, entries[i][1])])

-----------------------------------------------------------------------------
(* getPopularMovies and getTagBasedRecommendations.  A number is the       *)
(* record [nan |-> FALSE, value |-> n] or NaN.                             *)

NaN == [nan |-> TRUE]
Number(n) == [nan |-> FALSE, value |-> n]
isNaN(x) == x.nan

DigitChars == {Digit(d) : d \in 0..9}

\* index of the first occurrence of pattern in string, 0 when there is none
IndexOf(string, pattern) ==
    LET at(i) == SubSeq(string, i, i + Len(pattern) - 1) = pattern
        hits == {i \in 1..(Len(string) - Len(pattern) + 1) : at(i)}
    IN  IF hits = {} THEN 0 ELSE CHOOSE i \in hits : \A j \in hits : i <= j

\* string.replace(pattern, ''): only the first occurrence is replaced
ReplaceWithEmpty(string, pattern) ==
    LET i == IndexOf(string, pattern)
    IN  IF i = 0 THEN string
        ELSE SubSeq(string, 1, i - 1) \o SubSeq(string, i + Len(pattern), Len(string))

\* the white space and line terminators parseInt skips and trim removes; a
\* character that has no escape here is named by its code point
WhiteSpace ==
    {" ", "\t", "\n", "\r", "\f", "U+000B", "U+00A0", "U+1680", "U+2000", "U+2001",
     "U+2002", "U+2003", "U+2004", "U+2005", "U+2006", "U+2007", "U+2008", "U+2009",
     "U+200A", "U+2028", "U+2029", "U+202F", "U+205F", "U+3000", "U+FEFF"}

RECURSIVE TrimStart(_)
TrimStart(string) ==
    IF string # <<>> /\ Head(string) \in WhiteSpace THEN TrimStart(Tail(string))
    ELSE string

RECURSIVE DigitPrefix(_)
DigitPrefix(string) ==
    IF string # <<>> /\ Head(string) \in DigitChars
    THEN <<Head(string)>> \o DigitPrefix(Tail(string))
    ELSE <<>>

HexLetters == <<"a", "b", "c", "d", "e", "f">>
HexCapitals == <<"A", "B", "C", "D", "E", "F">>

HexValue(c) ==
    IF c \in DigitChars THEN DigitValue(c)
    ELSE 9 + (CHOOSE i \in 1..6 : HexLetters[i] = c \/ HexCapitals[i] = c)

RECURSIVE HexPrefix(_)
HexPrefix(string) ==
    IF string # <<>> /\ Head(string) \in DigitChars \cup Range(HexLetters) \cup Range(HexCapitals)
    THEN <<Head(string)>> \o HexPrefix(Tail(string))
    ELSE <<>>

RECURSIVE ParseHex(_)
ParseHex(digits) ==
    IF Len(digits) = 1 THEN HexValue(digits[1])
    ELSE 16 * ParseHex(SubSeq(digits, 1, Len(digits) - 1)) + HexValue(digits[Len(digits)])

\* parseInt(string) without a radix: leading white space, a sign, then
\* after 0x or 0X the longest run of hexadecimal digits, else the longest
\* run of decimal digits; NaN when that run is empty
parseInt(string) ==
    LET trimmed == TrimStart(string)
        negative == trimmed # <<>> /\ Head(trimmed) = "-"
        signed == trimmed # <<>> /\ Head(trimmed) \in {"-", "+"}
        unsigned == IF signed THEN Tail(trimmed) ELSE trimmed
        hex == Len(unsigned) >= 2 /\ unsigned[1] = "0" /\ unsigned[2] \in {"x", "X"}
        digits == IF hex THEN HexPrefix(SubSeq(unsigned, 3, Len(unsigned)))
                  ELSE DigitPrefix(unsigned)
        magnitude == IF hex THEN ParseHex(digits) ELSE ParseNumber(digits)
    IN  IF digits = <<>> THEN NaN
        ELSE Number(IF negative THEN 0 - magnitude ELSE magnitude)

\* String(n) for an integer
IntegerToString(n) ==
    IF n < 0 THEN <<"-">> \o NumberToString(0 - n) ELSE NumberToString(n)

\* numbers.join(',')
RECURSIVE Join(_)
Join(numbers) ==
    IF numbers = <<>> THEN <<>>
    ELSE IF Len(numbers) = 1 THEN IntegerToString(numbers[1])
    ELSE IntegerToString(numbers[1]) \o <<",">> \o Join(Tail(numbers))

\* array.includes(id) on an array of numbers
Includes(array, id) == \E i \in 1..Len(array) : array[i] = id

\* tags.filter(tag => tag.type === 'genre')
\*     .map(tag => parseInt(tag.id.replace('genre-', '')))
\*     .filter(id => !isNaN(id))
TagGenreIds(tags) ==
    LET isGenre(tag) == tag.type = "genre"
        genreTags == SelectSeq(tags, isGenre)
        parsed == [i \in 1..Len(genreTags) |->
                      parseInt(ReplaceWithEmpty(genreTags[i].id, GenrePrefix))]
        isNumber(x) == ~isNaN(x)
        numbers == SelectSeq(parsed, isNumber)
    IN  [i \in 1..Len(numbers) |-> numbers[i].value]

\* what an async function returns after response.data.results of a response
\* that did not fail
Results(response) == Get(response.data, "results")

\* the promise getPopularMovies(page) settles to
getPopularMovies(response) ==
    IF response.kind = "error" THEN Fulfilled(<<>>) ELSE Fulfilled(Results(response))

PopularRequest(page) == [path |-> "/movie/popular", params |-> [page |-> page]]

DiscoverRequest(genreIds, page) ==
    [path |-> "/discover/movie",
     params |-> IF Len(genreIds) > 0
                THEN [page |-> page, sort_by |-> "popularity.desc",
                      with_genres |-> Join(genreIds)]
                ELSE [page |-> page, sort_by |-> "popularity.desc"]]

\* popular movies as soon as one of the two is empty
TagBasedRequest_EitherEmpty(tags, likedMovieIds, page) ==
    IF Len(TagGenreIds(tags)) = 0 \/ Len(likedMovieIds) = 0
    THEN PopularRequest(page)
    ELSE DiscoverRequest(TagGenreIds(tags), page)

\* the one request getTagBasedRecommendations sends to the catalog
TagBasedRequest(tags, likedMovieIds, page) ==
    IF Len(TagGenreIds(tags)) = 0 /\ Len(likedMovieIds) = 0
    THEN PopularRequest(page)
    ELSE DiscoverRequest(TagGenreIds(tags), page)

\* the promise getTagBasedRecommendations(...) settles to, given the response
\* of the catalog to that request
getTagBasedRecommendations(tags, likedMovieIds, dislikedMovieIds, avoidedMovieIds, page, response) ==
    LET genreIds == TagGenreIds(tags)
        results == Results(response)
        keep(movie) == /\ ~Includes(dislikedMovieIds, movie.id)
                       /\ ~Includes(avoidedMovieIds, movie.id)
    IN  IF Len(genreIds) = 0 /\ Len(likedMovieIds) = 0
        THEN getPopularMovies(response)
        ELSE IF response.kind = "error" THEN Fulfilled(<<>>)
        ELSE IF Len(dislikedMovieIds) > 0 \/ Len(avoidedMovieIds) > 0
             THEN IF results = Undefined THEN Fulfilled(<<>>)
                  ELSE Fulfilled(SelectSeq(results, keep))
             ELSE Fulfilled(results)

-----------------------------------------------------------------------------
(* The other catalog operations.  getMovieDetails returns Movie | null: a  *)
(* value of that type is JsNull or JsObject(object).                       *)

JsObject(object) == [type |-> "object", object |-> object]

\* !query.trim(): the query is empty or made of white space and line
\* terminators only, the characters trim removes
IsBlank(query) == \A i \in 1..Len(query) : query[i] \in WhiteSpace

SearchRequest(query, page) ==
    [path |-> "/search/movie", params |-> [query |-> query, page |-> page]]

\* the promise searchMovies(query, page) settles to
searchMovies(query, response) ==
    IF IsBlank(query) THEN Fulfilled(<<>>)
    ELSE IF response.kind = "error" THEN Fulfilled(<<>>)
    ELSE Fulfilled(Results(response))

DetailsRequest(movieId) == [path |-> "/movie/{movieId}", movieId |-> movieId]

\* the promise getMovieDetails(movieId) settles to
getMovieDetails(response) ==
    IF response.kind = "error" THEN Fulfilled(JsNull)
    ELSE Fulfilled(JsObject(response.data))

GenresRequest == [path |-> "/genre/movie/list"]

RecommendationsRequest(movieId) ==
    [path |-> "/movie/{movieId}/recommendations", movieId |-> movieId]

\* the promise getRecommendations(movieId) settles to
getRecommendations(response) ==
    IF response.kind = "error" THEN Fulfilled(<<>>) ELSE Fulfilled(Results(response))

\* switch (mood): the genre ids of the mood, [] for any other value
MoodGenreIds(mood) ==
    CASE mood = "happy" -> <<35, 10751>>
      [] mood = "sad" -> <<18, 10749>>
      [] mood = "excited" -> <<28, 12, 878>>
      [] mood = "relaxed" -> <<16, 35, 10751>>
      [] mood = "thoughtful" -> <<99, 36, 18>>
      [] mood = "tense" -> <<27, 53, 9648>>
      [] OTHER -> <<>>

\* only the first genre of the mood in the filter
MoodRequest_FirstGenreOnly(mood, page) ==
    [path |-> "/discover/movie",
     params |-> [with_genres |-> Join(IF MoodGenreIds(mood) = <<>> THEN <<>>
                                      ELSE <<Head(MoodGenreIds(mood))>>),
                 sort_by |-> "popularity.desc", page |-> page]]

MoodRequest(mood, page) ==
    [path |-> "/discover/movie",
     params |-> [with_genres |-> Join(MoodGenreIds(mood)),
                 sort_by |-> "popularity.desc", page |-> page]]

\* the promise getMoodBasedRecommendations(mood, page) settles to
getMoodBasedRecommendations(mood, response) ==
    IF response.kind = "error" THEN Fulfilled(<<>>) ELSE Fulfilled(Results(response))

-----------------------------------------------------------------------------
(* A call of one of the provider's functions as a value: the name of the   *)
(* function and its argument.  What the function hands to setProfile is    *)
(* either an updater, the function prev => ... of its body, or a value.    *)

\* the state the update produces from the state prev
Reduce(prev, update) ==
    CASE update[1] = "addLikedMovie" -> addLikedMovie(prev, update[2])
      [] update[1] = "removeLikedMovie" -> removeLikedMovie(prev, update[2])
      [] update[1] = "addDislikedMovie" -> addDislikedMovie(prev, update[2])
      [] update[1] = "removeDislikedMovie" -> removeDislikedMovie(prev, update[2])
      [] update[1] = "addAvoidedMovie" -> addAvoidedMovie(prev, update[2])
      [] update[1] = "removeAvoidedMovie" -> removeAvoidedMovie(prev, update[2])
      [] update[1] = "addTag" -> addTag(prev, update[2])
      [] update[1] = "removeTag" -> removeTag(prev, update[2])
      [] update[1] = "setCurrentMood" -> setCurrentMood(prev, update[2])
      [] update[1] = "clearProfile" -> clearProfile(prev)

\* the updater returns prev itself: React keeps the state object
ReturnsPrev(prev, update) ==
    CASE update[1] = "addLikedMovie" -> isAlreadyLiked(prev, update[2])
      [] update[1] = "addDislikedMovie" -> isAlreadyDisliked(prev, update[2])
      [] update[1] = "addAvoidedMovie" -> isAlreadyAvoided(prev, update[2])
      [] update[1] = "addTag" -> tagExists(prev, update[2])
      [] OTHER -> FALSE

\* setProfile(prev => ...): the updater of the function op called with arg
Updater(op, arg) == [kind |-> "updater", op |-> op, arg |-> arg]

\* setProfile(value): the object handed over and its content
Value(object, value) == [kind |-> "value", object |-> object, value |-> value]

\* every function computes the next profile from the profile of its render
\* and hands setProfile that value
SetProfileArgument_FromRendered(call, rendered) ==
    IF call[1] = "clearProfile" THEN Value("initialProfile", clearProfile(rendered))
    ELSE Value("new", Reduce(rendered, call))

\* what the function hands to setProfile when it is called while the
\* profile of its render is rendered: clearProfile the constant
\* initialProfile, every other function an updater of prev that does not
\* read the rendered profile
SetProfileArgument(call, rendered) ==
    IF call[1] = "clearProfile" THEN Value("initialProfile", clearProfile(rendered))
    ELSE Updater(call[1], call[2])

\* the state one setProfile argument leaves: an updater is called with the
\* state before it, a value replaces that state
Apply(state, argument) ==
    IF argument.kind = "updater" THEN Reduce(state, <<argument.op, argument.arg>>)
    ELSE argument.value

RECURSIVE ProcessQueue(_, _)
\* the state after the waiting setProfile arguments, starting from the
\* rendered state, each applied to the state the one before it left
ProcessQueue(state, arguments) ==
    IF arguments = <<>> THEN state
    ELSE ProcessQueue(Apply(state, Head(arguments)), Tail(arguments))

RECURSIVE ObjectAfter(_, _, _)
\* which object the state is after the waiting arguments: the rendered one,
\* the constant initialProfile, or a new one
ObjectAfter(object, state, arguments) ==
    IF arguments = <<>> THEN object
    ELSE LET argument == Head(arguments)
         IN  ObjectAfter(IF argument.kind = "value" THEN argument.object
                         ELSE IF ReturnsPrev(state, <<argument.op, argument.arg>>)
                              THEN object
                              ELSE "new",
                         Apply(state, argument),
                         Tail(arguments))

\* an effect that depends on profile.likedMovies only
EffectRunsAfter_LikedOnly(rendered, arguments) ==
    {ProcessQueue(rendered, arguments).likedMovies # rendered.likedMovies}

\* whether the effect of [profile] is scheduled by the render: it is when
\* the state is another object.  clearProfile sets the object
\* initialProfile; a rendered profile with its content can be that object or
\* a copy of it, so both happen.
EffectRunsAfter(rendered, arguments) ==
    CASE ObjectAfter("rendered", rendered, arguments) = "rendered" -> {FALSE}
      [] ObjectAfter("rendered", rendered, arguments) = "new" -> {TRUE}
      [] OTHER -> IF rendered = initialProfile THEN {TRUE, FALSE} ELSE {TRUE}

-----------------------------------------------------------------------------
(* The store as a state machine.  profile is the state of the useState     *)
(* hook as last rendered, storage the item 'userProfile' of localStorage,  *)
(* queue the setProfile arguments waiting for a render, effectPending      *)
(* whether the effect of [profile] is scheduled and has not run, mounted   *)
(* whether the provider is mounted, last the latest call with its argument *)
(* and the profile its update will receive.  A call, the render and the    *)
(* effect are three steps: the function returns after setProfile, React    *)
(* renders later and runs the effect after the render.  A function can be  *)
(* called whatever waits: after another call of the same event, or before  *)
(* the effect of the last render has run.                                  *)

ExIdle ==
    /\ exPc = "idle"
    /\ exMovies = <<>>
    /\ exArray = <<>>
    /\ exGenres = [kind |-> "error"]
    /\ exGenreMap = <<>>
    /\ exTags = Pending

RecIdle ==
    /\ recPc = "idle"
    /\ recInput = [tags |-> <<>>, likedMovieIds |-> <<>>, dislikedMovieIds |-> <<>>,
                   avoidedMovieIds |-> <<>>, page |-> 1]
    /\ recExcluded = [dislikedMovieIds |-> <<>>, avoidedMovieIds |-> <<>>]
    /\ recCatalog = [kind |-> "error"]
    /\ recGenreIds = <<>>
    /\ recRequest = <<>>
    /\ recResult = Pending

CatIdle ==
    /\ catPending = EmptyBag
    /\ catCall = [op |-> "none"]
    /\ catResponse = [kind |-> "error"]
    /\ catRequest = <<>>
    /\ catResult = Pending

\* the first render of the provider on an empty storage: the initializer has
\* read the item, the effect is scheduled and nothing is written yet
StoreInit ==
    /\ profile = LoadProfile(NoItem)
    /\ storage = NoItem
    /\ last = [op |-> "mount", arg |-> NoItem, prev |-> initialProfile]
    /\ queue = <<>>
    /\ mounted = TRUE
    /\ effectPending = TRUE

\* a later session: the provider is constructed again, the initializer reads
\* the item; what was waiting in the earlier session is gone
Restore ==
    /\ profile' = LoadProfile(storage)
    /\ last' = [op |-> "mount", arg |-> storage, prev |-> profile]
    /\ queue' = <<>>
    /\ mounted' = TRUE
    /\ effectPending' = TRUE
    /\ UNCHANGED <<storage, exVars, recVars, catVars>>

\* the provider function hands its argument to setProfile and returns,
\* whatever is waiting; the update will receive the state the updates before
\* it leave
SetProfile(update) ==
    /\ mounted
    /\ Len(queue) < (IF effectPending THEN MaxQueueBeforeEffect ELSE MaxQueue)
    /\ queue' = Append(queue, SetProfileArgument(update, profile))
    /\ last' = [op |-> update[1], arg |-> update[2],
                prev |-> ProcessQueue(profile, queue)]
    /\ UNCHANGED <<profile, storage, mounted, effectPending, exVars, recVars, catVars>>

AddLikedMovie == \E movie \in StoreMovies : SetProfile(<<"addLikedMovie", movie>>)

RemoveLikedMovie == \E movieId \in MovieIds : SetProfile(<<"removeLikedMovie", movieId>>)

AddDislikedMovie == \E movie \in StoreMovies : SetProfile(<<"addDislikedMovie", movie>>)

RemoveDislikedMovie ==
    \E movieId \in MovieIds : SetProfile(<<"removeDislikedMovie", movieId>>)

AddAvoidedMovie == \E movie \in StoreMovies : SetProfile(<<"addAvoidedMovie", movie>>)

RemoveAvoidedMovie ==
    \E movieId \in MovieIds : SetProfile(<<"removeAvoidedMovie", movieId>>)

AddTag == \E tag \in StoreTags : SetProfile(<<"addTag", tag>>)

RemoveTag == \E tagId \in StoreTagIds : SetProfile(<<"removeTag", tagId>>)

SetCurrentMood == \E mood \in StoreMoods : SetProfile(<<"setCurrentMood", mood>>)

ClearProfile == SetProfile(<<"clearProfile", Null>>)

\* React renders the provider: the waiting updates are processed in order
\* (a scheduled effect runs before the next render), the effect of [profile]
\* is scheduled when the state object changed
Render ==
    /\ mounted
    /\ queue # <<>>
    /\ ~effectPending
    /\ profile' = ProcessQueue(profile, queue)
    /\ effectPending' \in EffectRunsAfter(profile, queue)
    /\ queue' = <<>>
    /\ UNCHANGED <<storage, last, mounted, exVars, recVars, catVars>>

\* useEffect(() => localStorage.setItem('userProfile', JSON.stringify(profile)), [profile])
RunEffect ==
    /\ mounted
    /\ effectPending
    /\ storage' = JSONstringify(profile)
    /\ effectPending' = FALSE
    /\ UNCHANGED <<profile, last, queue, mounted, exVars, recVars, catVars>>

Init == StoreInit /\ ExIdle /\ RecIdle /\ CatIdle

Next ==
    \/ AddLikedMovie
    \/ RemoveLikedMovie
    \/ AddDislikedMovie
    \/ RemoveDislikedMovie
    \/ AddAvoidedMovie
    \/ RemoveAvoidedMovie
    \/ AddTag
    \/ RemoveTag
    \/ SetCurrentMood
    \/ ClearProfile
    \/ Render
    \/ RunEffect
    \/ Restore

Spec == Init /\ [][Next]_vars

-----------------------------------------------------------------------------
(* The store with a storage that can refuse a write: localStorage.setItem  *)
(* throws (quota exceeded, storage disabled).  The effect has no try/catch *)
(* and the provider is rendered without an error boundary, so the error    *)
(* thrown in the effect unmounts the tree; no function of the provider can *)
(* be called until the application is loaded again.                        *)

\* the effect runs and setItem throws
SetItemThrows ==
    /\ mounted
    /\ effectPending
    /\ mounted' = FALSE
    /\ effectPending' = FALSE
    /\ last' = [op |-> last.op, arg |-> last.arg, prev |-> last.prev,
                write |-> "failed"]
    /\ UNCHANGED <<profile, storage, queue, exVars, recVars, catVars>>

InitQuota == Init

NextQuota == Next \/ SetItemThrows

SpecQuota == InitQuota /\ [][NextQuota]_vars

-----------------------------------------------------------------------------
(* The store with several calls before a render: each call appends its     *)
(* setProfile argument to the queue, whatever is waiting; the render       *)
(* processes the queue.                                                    *)

BatchUpdates ==
    {<<"addLikedMovie", StoreMovie(1)>>, <<"addDislikedMovie", StoreMovie(1)>>,
     <<"removeLikedMovie", 1>>, <<"addTag", StoreTag(18, "Drama", "auto")>>,
     <<"setCurrentMood", "sad">>, <<"clearProfile", Null>>}

\* a provider function is called: what it hands to setProfile waits for the
\* render; last holds the calls made since the render
CallFunction ==
    \E update \in BatchUpdates :
        /\ mounted
        /\ Len(queue) < MaxQueue
        /\ queue' = Append(queue, SetProfileArgument(update, profile))
        /\ last' = [op |-> "calls",
                    arg |-> Append(IF queue = <<>> THEN <<>> ELSE last.arg, update),
                    prev |-> profile]
        /\ UNCHANGED <<profile, storage, mounted, effectPending, exVars, recVars, catVars>>

InitBatch == Init

NextBatch == CallFunction \/ Render \/ RunEffect

SpecBatch == InitBatch /\ [][NextBatch]_vars

-----------------------------------------------------------------------------
(* extractTagsFromMovies as a state machine.  The call sends the genre     *)
(* list request and waits (await getGenres()); it reads the array movies   *)
(* only when it continues after the response.  movies is the caller's      *)
(* array: exMovies is its content at the call, exArray its content now,    *)
(* which the caller can change while the call waits.                       *)

GenreIdLists == SeqsUpTo(ExGenreIds, MaxGenresPerMovie)

\* a movie carries genre_ids (list endpoints), genres (detail endpoint),
\* neither, or both: genres next to a genre_ids that is null, undefined,
\* empty, the same genre or another genre
ExMovieShapes ==
    {[title |-> "T", genre_ids |-> JsArray(ids)] : ids \in GenreIdLists}
    \cup {[title |-> "T",
            genres |-> JsArray([i \in 1..Len(ids) |-> Genre(ids[i], "G")])] :
              ids \in GenreIdLists}
    \cup {[title |-> "T"]}
    \cup {[title |-> "T", genre_ids |-> ids, genres |-> JsArray(<<Genre(18, "G")>>)] :
              ids \in {JsNull, JsUndefined, JsArray(<<>>), JsArray(<<18>>),
                       JsArray(<<35>>)}}

ExMovieLists == SeqsUpTo(ExMovieShapes, MaxMovies)

\* extractTagsFromMovies(movies) is called: line 83 calls getGenres() and
\* waits for it
CallExtractTagsFromMovies ==
    /\ exPc = "idle"
    /\ \E movies \in ExMovieLists :
           /\ exMovies' = movies
           /\ exArray' = movies
    /\ exPc' = "await getGenres"
    /\ UNCHANGED <<exGenres, exGenreMap, exTags, storeVars, batchVars, recVars, catVars>>

\* the caller pushes a movie on the array while the call waits
PushMovie ==
    /\ exPc = "await getGenres"
    /\ Len(exArray) < MaxMovies
    /\ \E movie \in ExMovieShapes : exArray' = Append(exArray, movie)
    /\ UNCHANGED <<exPc, exMovies, exGenres, exGenreMap, exTags,
                   storeVars, batchVars, recVars, catVars>>

\* the caller pops the last movie off the array while the call waits
PopMovie ==
    /\ exPc = "await getGenres"
    /\ exArray # <<>>
    /\ exArray' = SubSeq(exArray, 1, Len(exArray) - 1)
    /\ UNCHANGED <<exPc, exMovies, exGenres, exGenreMap, exTags,
                   storeVars, batchVars, recVars, catVars>>

\* the catalog answers the genre list request and the call continues: it
\* walks the array as it is now, builds the Map and settles
ExtractTagsFromMovies ==
    /\ exPc = "await getGenres"
    /\ \E response \in GenreResponses :
           /\ exGenres' = response
           /\ exTags' = extractTagsFromMovies(exArray, response)
    /\ exGenreMap' = CollectGenreIds(<<>>, exArray)
    /\ exPc' = "done"
    /\ UNCHANGED <<exMovies, exArray, storeVars, batchVars, recVars, catVars>>

InitExtract == ExIdle /\ StoreInit /\ RecIdle /\ CatIdle

NextExtract == CallExtractTagsFromMovies \/ PushMovie \/ PopMovie \/ ExtractTagsFromMovies

SpecExtract == InitExtract /\ [][NextExtract]_vars

-----------------------------------------------------------------------------
(* getTagBasedRecommendations as a state machine.  The call derives the    *)
(* genre ids, sends its request and waits; it reads dislikedMovieIds and   *)
(* avoidedMovieIds only when it continues after the response.  The two are *)
(* the caller's arrays: recInput holds the arguments as they were at the   *)
(* call, recExcluded the content of the two arrays now, which the caller   *)
(* can change while the call waits.                                        *)

RecTag(id, type) == [id |-> id, name |-> "N", source |-> "manual", type |-> type]

RecTags ==
    {RecTag(GenreTagId(18), "genre"),
     RecTag(GenrePrefix \o <<"1", "2", "a", "b", "c">>, "genre"),
     RecTag(GenrePrefix \o <<"a", "b", "c">>, "genre"),
     RecTag(GenrePrefix \o <<"0", "x", "1", "f">>, "genre"),
     RecTag(GenrePrefix \o <<"\t", "1", "2">>, "genre"),
     RecTag(GenreTagId(35), "keyword")}

CatalogMovie(id) == [id |-> id, title |-> "T"]

CatalogResponses ==
    {[kind |-> "error"], [kind |-> "ok", data |-> [status_message |-> "none"]]}
    \cup {[kind |-> "ok", data |-> [results |-> rs]] :
             rs \in {<<>>, <<CatalogMovie(5)>>, <<CatalogMovie(5), CatalogMovie(7)>>,
                     <<CatalogMovie(7), CatalogMovie(5)>>}}

RecInputs ==
    [tags : SeqsUpTo(RecTags, MaxTags),
     likedMovieIds : {<<>>, <<9>>},
     dislikedMovieIds : SeqsUpTo({5, 7}, MaxExcluded),
     avoidedMovieIds : SeqsUpTo({5, 7}, MaxExcluded),
     page : {1, 2}]

ExcludedLists == SeqsUpTo({5, 7}, MaxExcluded)

\* getTagBasedRecommendations(...) is called: lines 173-194 (line 20 on the
\* cold start) derive the genre ids, send the request and wait
CallTagBasedRecommendations ==
    /\ recPc = "idle"
    /\ \E input \in RecInputs :
           /\ recInput' = input
           /\ recExcluded' = [dislikedMovieIds |-> input.dislikedMovieIds,
                              avoidedMovieIds |-> input.avoidedMovieIds]
           /\ recGenreIds' = TagGenreIds(input.tags)
           /\ recRequest' = <<TagBasedRequest(input.tags, input.likedMovieIds, input.page)>>
    /\ recPc' = "await api.get"
    /\ UNCHANGED <<recCatalog, recResult, storeVars, batchVars, exVars, catVars>>

\* the caller changes dislikedMovieIds or avoidedMovieIds while the call
\* waits
ExcludedChange ==
    /\ recPc = "await api.get"
    /\ \E disliked \in ExcludedLists, avoided \in ExcludedLists :
           /\ <<disliked, avoided>>
                  # <<recExcluded.dislikedMovieIds, recExcluded.avoidedMovieIds>>
           /\ recExcluded' = [dislikedMovieIds |-> disliked, avoidedMovieIds |-> avoided]
    /\ UNCHANGED <<recPc, recInput, recCatalog, recGenreIds, recRequest, recResult,
                   storeVars, batchVars, exVars, catVars>>

\* the catalog answers and the call continues: lines 195-209 (23-27 on the
\* cold start) with the two arrays as they are now
GetTagBasedRecommendations ==
    /\ recPc = "await api.get"
    /\ \E response \in CatalogResponses :
           /\ recCatalog' = response
           /\ recResult' = getTagBasedRecommendations(
                               recInput.tags, recInput.likedMovieIds,
                               recExcluded.dislikedMovieIds, recExcluded.avoidedMovieIds,
                               recInput.page, response)
    /\ recPc' = "done"
    /\ UNCHANGED <<recInput, recExcluded, recGenreIds, recRequest,
                   storeVars, batchVars, exVars, catVars>>

InitRecommend == RecIdle /\ StoreInit /\ ExIdle /\ CatIdle

NextRecommend ==
    CallTagBasedRecommendations \/ ExcludedChange \/ GetTagBasedRecommendations

SpecRecommend == InitRecommend /\ [][NextRecommend]_vars

-----------------------------------------------------------------------------
(* The catalog operations as a state machine.  A call sends its request   *)
(* and waits for the response (await api.get); other calls can be made     *)
(* while it waits, and the responses arrive in any order.  catPending is   *)
(* the bag of the calls that wait, each with the request it sent and with  *)
(* its arguments as they are now (the arrays handed to                     *)
(* getTagBasedRecommendations belong to the caller, who can change them    *)
(* while the call waits); catCall,                                         *)
(* catRequest, catResponse and catResult are the call that settled last,   *)
(* the requests it sent, the outcome of its request (a network failure, a  *)
(* non-success status or a payload) and the promise it settled to.         *)

Pages == {1, 2}

Queries == {<<>>, <<" ">>, <<"\t", "U+00A0">>, <<"a">>}

CatalogCalls ==
    {[op |-> "getPopularMovies", page |-> p] : p \in Pages}
    \cup {[op |-> "searchMovies", query |-> q, page |-> p] : q \in Queries, p \in Pages}
    \cup {[op |-> "getMovieDetails", movieId |-> id] : id \in {5, 7}}
    \cup {[op |-> "getGenres"]}
    \cup {[op |-> "getRecommendations", movieId |-> id] : id \in {5, 7}}
    \cup {[op |-> "getMoodBasedRecommendations", mood |-> m, page |-> p] :
              m \in Moods \cup {"bored"}, p \in Pages}
    \cup {[op |-> "getTagBasedRecommendations", tags |-> ts, likedMovieIds |-> ls,
           dislikedMovieIds |-> ds, avoidedMovieIds |-> <<>>, page |-> 1] :
              ts \in {<<>>, <<RecTag(GenreTagId(18), "genre")>>},
              ls \in {<<>>}, ds \in {<<>>, <<5>>}}

\* axios rejects on a network failure and on a status that is not 2xx
CatalogFailures ==
    {[kind |-> "error", cause |-> "network"], [kind |-> "error", cause |-> "status"]}

\* a list of movies, a list of genres, one movie, or none of them
CatalogPayloads ==
    {[results |-> <<>>], [results |-> <<CatalogMovie(5), CatalogMovie(7)>>],
     [genres |-> <<Genre(18, "Drama")>>], CatalogMovie(5), [status_message |-> "none"]}

CatalogOutcomes ==
    CatalogFailures \cup {[kind |-> "ok", data |-> d] : d \in CatalogPayloads}

\* the requests the call sends before it waits; searchMovies sends none for
\* a blank query
Requests(call) ==
    CASE call.op = "getPopularMovies" -> <<PopularRequest(call.page)>>
      [] call.op = "searchMovies" ->
             IF IsBlank(call.query) THEN <<>>
             ELSE <<SearchRequest(call.query, call.page)>>
      [] call.op = "getMovieDetails" -> <<DetailsRequest(call.movieId)>>
      [] call.op = "getGenres" -> <<GenresRequest>>
      [] call.op = "getRecommendations" -> <<RecommendationsRequest(call.movieId)>>
      [] call.op = "getMoodBasedRecommendations" -> <<MoodRequest(call.mood, call.page)>>
      [] call.op = "getTagBasedRecommendations" ->
             <<TagBasedRequest(call.tags, call.likedMovieIds, call.page)>>

\* the promise the call settles to when its request has the outcome response
Promise(call, response) ==
    CASE call.op = "getPopularMovies" -> getPopularMovies(response)
      [] call.op = "searchMovies" -> searchMovies(call.query, response)
      [] call.op = "getMovieDetails" -> getMovieDetails(response)
      [] call.op = "getGenres" -> Fulfilled(getGenres(response))
      [] call.op = "getRecommendations" -> getRecommendations(response)
      [] call.op = "getMoodBasedRecommendations" ->
             getMoodBasedRecommendations(call.mood, response)
      [] call.op = "getTagBasedRecommendations" ->
             getTagBasedRecommendations(call.tags, call.likedMovieIds,
                                        call.dislikedMovieIds, call.avoidedMovieIds,
                                        call.page, response)

\* the operation is called: it sends its request and waits with the calls
\* that wait already; a searchMovies with a blank query returns [] at once
Call(op) ==
    \E call \in CatalogCalls :
        /\ call.op = op
        /\ IF Requests(call) = <<>>
           THEN /\ catCall' = call
                /\ catRequest' = <<>>
                /\ catResponse' = [kind |-> "none"]
                /\ catResult' = searchMovies(call.query, [kind |-> "none"])
                /\ UNCHANGED catPending
           ELSE /\ BagCardinality(catPending) < MaxInFlight
                /\ catPending' = catPending
                                     (+) SetToBag({[call |-> call, request |-> Requests(call),
                                                    now |-> call]})
                /\ UNCHANGED <<catCall, catResponse, catRequest, catResult>>
        /\ UNCHANGED <<storeVars, batchVars, exVars, recVars>>

CallGetPopularMovies == Call("getPopularMovies")

CallSearchMovies == Call("searchMovies")

CallGetMovieDetails == Call("getMovieDetails")

CallGetGenres == Call("getGenres")

CallGetRecommendations == Call("getRecommendations")

CallGetMoodBasedRecommendations == Call("getMoodBasedRecommendations")

CallGetTagBasedRecommendations == Call("getTagBasedRecommendations")

\* the caller changes dislikedMovieIds or avoidedMovieIds of a
\* getTagBasedRecommendations that waits: 5 is pushed on the array or popped
\* off it
CatalogExcludedChange ==
    \E waiting \in BagToSet(catPending) :
        /\ waiting.call.op = "getTagBasedRecommendations"
        /\ \E disliked \in {<<>>, <<5>>}, avoided \in {<<>>, <<5>>} :
               /\ <<disliked, avoided>>
                      # <<waiting.now.dislikedMovieIds, waiting.now.avoidedMovieIds>>
               /\ catPending' =
                      (catPending (-) SetToBag({waiting}))
                          (+) SetToBag({[waiting EXCEPT !.now.dislikedMovieIds = disliked,
                                                        !.now.avoidedMovieIds = avoided]})
        /\ UNCHANGED <<catCall, catResponse, catRequest, catResult,
                       storeVars, batchVars, exVars, recVars>>

\* the request of one of the waiting calls gets its outcome and that call
\* continues after its await to the end, with its arguments as they are now;
\* catCall keeps the call as it was made
Settle ==
    \E waiting \in BagToSet(catPending), response \in CatalogOutcomes :
        /\ catCall' = waiting.call
        /\ catRequest' = waiting.request
        /\ catResponse' = response
        /\ catResult' = Promise(waiting.now, response)
        /\ catPending' = catPending (-) SetToBag({waiting})
        /\ UNCHANGED <<storeVars, batchVars, exVars, recVars>>

InitCatalog == CatIdle /\ StoreInit /\ ExIdle /\ RecIdle

NextCatalog ==
    \/ CallGetPopularMovies
    \/ CallSearchMovies
    \/ CallGetMovieDetails
    \/ CallGetGenres
    \/ CallGetRecommendations
    \/ CallGetMoodBasedRecommendations
    \/ CallGetTagBasedRecommendations
    \/ CatalogExcludedChange
    \/ Settle

SpecCatalog == InitCatalog /\ [][NextCatalog]_vars

-----------------------------------------------------------------------------
(* Properties of the store, checked under Spec *)

MoviesDisjoint(p) ==
    /\ Ids(p.likedMovies) \cap Ids(p.dislikedMovies) = {}
    /\ Ids(p.likedMovies) \cap Ids(p.avoidedMovies) = {}
    /\ Ids(p.dislikedMovies) \cap Ids(p.avoidedMovies) = {}

\* the latest call has been rendered
Applied == queue = <<>>

\* the latest render has been followed by its effect
Saved == ~effectPending

\* C1: starting from the empty profile, after any sequence of store
\* operations every movie id is in at most one of likedMovies,
\* dislikedMovies and avoidedMovies.
C1_MutualExclusivity == MoviesDisjoint(profile)

\* a movie that was liked has just been moved to avoided while another one
\* is disliked
C1_Witness ==
    /\ Applied
    /\ last.op = "addAvoidedMovie"
    /\ last.arg.id \in Ids(last.prev.likedMovies)
    /\ profile.dislikedMovies # <<>>
    /\ profile.avoidedMovies # <<>>

\* C2: immediately after addLikedMovie(m) the id of m is in likedMovies and
\* in neither of the other two sets, whatever set it was in before; the same
\* for addDislikedMovie and addAvoidedMovie with the roles exchanged.
C2_AddPostcondition ==
    /\ (Applied /\ last.op = "addLikedMovie") =>
           /\ last.arg.id \in Ids(profile.likedMovies)
           /\ last.arg.id \notin Ids(profile.dislikedMovies)
           /\ last.arg.id \notin Ids(profile.avoidedMovies)
    /\ (Applied /\ last.op = "addDislikedMovie") =>
           /\ last.arg.id \in Ids(profile.dislikedMovies)
           /\ last.arg.id \notin Ids(profile.likedMovies)
           /\ last.arg.id \notin Ids(profile.avoidedMovies)
    /\ (Applied /\ last.op = "addAvoidedMovie") =>
           /\ last.arg.id \in Ids(profile.avoidedMovies)
           /\ last.arg.id \notin Ids(profile.likedMovies)
           /\ last.arg.id \notin Ids(profile.dislikedMovies)

\* the scenario of the specification: the only movie of the profile was
\* disliked and has just been liked
C2_Witness ==
    /\ Applied
    /\ last.op = "addLikedMovie"
    /\ Ids(last.prev.dislikedMovies) = {last.arg.id}
    /\ Ids(profile.likedMovies) = {last.arg.id}
    /\ profile.dislikedMovies = <<>>

TagIdsUnique(p) ==
    \A i, j \in 1..Len(p.tags) : p.tags[i].id = p.tags[j].id => i = j

\* C7: no two tags of the profile have the same id; addTag of a tag whose id
\* is already there leaves the profile unchanged, addTag of a new id appends
\* the tag at the end and changes nothing else.
C7_TagsUnique ==
    /\ TagIdsUnique(profile)
    /\ (Applied /\ last.op = "addTag") =>
           IF SomeId(last.prev.tags, last.arg.id)
           THEN profile = last.prev
           ELSE profile = [last.prev EXCEPT !.tags = Append(@, last.arg)]

\* addTag was just called with a tag that differs from a tag of the profile
\* but has its id, in a profile of two tags
C7_Witness ==
    /\ Applied
    /\ last.op = "addTag"
    /\ SomeId(last.prev.tags, last.arg.id)
    /\ last.arg \notin Range(last.prev.tags)
    /\ Len(profile.tags) = 2

\* C8: addLikedMovie, addDislikedMovie and addAvoidedMovie are idempotent:
\* applying the operation again to its own result changes nothing, and a
\* call for a movie that is already in the set returns the snapshot it got.
C8_AddIdempotent ==
    /\ (Applied /\ last.op = "addLikedMovie") =>
           /\ addLikedMovie(profile, last.arg) = profile
           /\ SomeId(last.prev.likedMovies, last.arg.id) => profile = last.prev
    /\ (Applied /\ last.op = "addDislikedMovie") =>
           /\ addDislikedMovie(profile, last.arg) = profile
           /\ SomeId(last.prev.dislikedMovies, last.arg.id) => profile = last.prev
    /\ (Applied /\ last.op = "addAvoidedMovie") =>
           /\ addAvoidedMovie(profile, last.arg) = profile
           /\ SomeId(last.prev.avoidedMovies, last.arg.id) => profile = last.prev

\* addDislikedMovie was just called for a movie that was disliked already
C8_Witness ==
    /\ Applied
    /\ last.op = "addDislikedMovie"
    /\ SomeId(last.prev.dislikedMovies, last.arg.id)
    /\ Len(profile.dislikedMovies) = 2

\* after is before without its element of the given id
RemovedFrom(before, after, id) ==
    IF ~SomeId(before, id) THEN after = before
    ELSE \E i \in 1..Len(before) :
             /\ before[i].id = id
             /\ after = SubSeq(before, 1, i - 1) \o SubSeq(before, i + 1, Len(before))

OthersSame(p, q, key) ==
    /\ DOMAIN p = DOMAIN q
    /\ \A k \in (DOMAIN p) \ {key} : p[k] = q[k]

RemoveFrame(key) ==
    /\ RemovedFrom(last.prev[key], profile[key], last.arg)
    /\ OthersSame(last.prev, profile, key)
    /\ ~SomeId(last.prev[key], last.arg) => profile = last.prev

\* C9: removeTag, removeLikedMovie, removeDislikedMovie and removeAvoidedMovie
\* with an id that is not in their list leave the profile equal by value to
\* the profile before the call; with an id that is there they remove that
\* element from that list and change nothing else.
C9_RemoveFrame ==
    /\ (Applied /\ last.op = "removeTag") => RemoveFrame("tags")
    /\ (Applied /\ last.op = "removeLikedMovie") => RemoveFrame("likedMovies")
    /\ (Applied /\ last.op = "removeDislikedMovie") => RemoveFrame("dislikedMovies")
    /\ (Applied /\ last.op = "removeAvoidedMovie") => RemoveFrame("avoidedMovies")

\* removeTag was just called with an id that is not in a profile that has a
\* tag and a liked movie
C9_Witness ==
    /\ Applied
    /\ last.op = "removeTag"
    /\ ~SomeId(last.prev.tags, last.arg)
    /\ last.prev.tags # <<>>
    /\ last.prev.likedMovies # <<>>

ProfileKeys == {"likedMovies", "dislikedMovies", "avoidedMovies", "tags", "currentMood"}

\* equality by value: every property reads the same in both
ProfileEq(p, q) == \A k \in ProfileKeys : Get(p, k) = Get(q, k)

\* C10: the profile restored from the item the store saved for a profile p
\* equals p: same liked, disliked and avoided movies in the same order,
\* same tags, same current mood, the unset mood included.
C10_RoundTrip ==
    /\ Saved => ProfileEq(LoadProfile(storage), profile)
    /\ (last.op = "mount" /\ last.arg = JSONstringify(last.prev))
           => ProfileEq(profile, last.prev)

\* a session was just started from the item saved for a profile with a mood,
\* a tag and a liked movie whose poster_path is null
C10_Witness ==
    /\ last.op = "mount"
    /\ last.arg = JSONstringify(last.prev)
    /\ Get(last.prev, "currentMood") \in StoreMoods
    /\ last.prev.tags # <<>>
    /\ \E i \in 1..Len(last.prev.likedMovies) :
           last.prev.likedMovies[i].poster_path = Null
    /\ last.prev.dislikedMovies # <<>>

\* C15: from every reachable profile clearProfile() yields the empty profile
\* (the four lists empty, the mood unset), and the persisted state is
\* discarded with it: a restore from the item written after clearProfile
\* yields the empty profile, nothing of the earlier one.
C15_ClearEmptiesProfileAndStorage ==
    (Applied /\ last.op = "clearProfile") =>
        /\ profile.likedMovies = <<>>
        /\ profile.dislikedMovies = <<>>
        /\ profile.avoidedMovies = <<>>
        /\ profile.tags = <<>>
        /\ Get(profile, "currentMood") = Undefined
        /\ Saved => ProfileEq(LoadProfile(storage), initialProfile)

\* clearProfile on a profile with a liked movie, a tag and a mood
C15_Witness ==
    /\ Applied
    /\ Saved
    /\ last.op = "clearProfile"
    /\ last.prev.likedMovies # <<>>
    /\ last.prev.tags # <<>>
    /\ Get(last.prev, "currentMood") # Undefined
    /\ profile.likedMovies = <<>>
    /\ LoadProfile(storage).tags = <<>>

\* no movie id twice within one list
NoIdTwice(p) ==
    \A k \in {"likedMovies", "dislikedMovies", "avoidedMovies"} :
        \A i, j \in 1..Len(p[k]) : p[k][i].id = p[k][j].id => i = j

StoreInvariants(p) == MoviesDisjoint(p) /\ NoIdTwice(p) /\ TagIdsUnique(p)

\* C20: every snapshot the store writes satisfies the store invariants (the
\* three movie lists pairwise disjoint by id, no id twice within a list, tag
\* ids unique), so a session that starts by restoring the last item written
\* starts in a state satisfying them and keeps them under every further
\* operation; the restore takes the parsed item as it is, with no
\* validation.
C20_SnapshotsSatisfyInvariants ==
    /\ StoreInvariants(LoadProfile(storage))
    /\ StoreInvariants(profile)
    /\ (last.op = "mount" /\ last.arg.json # "none") => profile = JSONparse(last.arg)

\* a session restored from an item holding a liked movie, a disliked movie
\* and a tag
C20_Witness ==
    /\ last.op = "mount"
    /\ last.arg.json # "none"
    /\ profile = JSONparse(last.arg)
    /\ profile.likedMovies # <<>>
    /\ profile.dislikedMovies # <<>>
    /\ profile.tags # <<>>
    /\ last.prev.likedMovies # <<>>

-----------------------------------------------------------------------------
(* Properties of getTagBasedRecommendations, checked under SpecRecommend *)

\* C3: the list getTagBasedRecommendations returns contains no movie whose
\* id is in dislikedMovieIds or avoidedMovieIds, on the cold-start path too.
C3_NoExcludedMovie ==
    (recResult.status = "fulfilled" /\ recResult.value # Undefined) =>
        \A i \in 1..Len(recResult.value) :
            /\ ~Includes(recInput.dislikedMovieIds, recResult.value[i].id)
            /\ ~Includes(recInput.avoidedMovieIds, recResult.value[i].id)

\* C16: getTagBasedRecommendations sends one request.  It is the popular
\* movies listing of the page if and only if the genre ids derived from the
\* tags are empty and likedMovieIds is empty; otherwise it is a discover
\* query sorted by descending popularity for the page, with with_genres the
\* derived ids joined when there is one, and without with_genres when there
\* is none.
C16_QueryChoice ==
    recPc # "idle" =>
        /\ Len(recRequest) = 1
        /\ recRequest[1].path \in {"/movie/popular", "/discover/movie"}
        /\ recRequest[1].path = "/movie/popular"
               <=> (recGenreIds = <<>> /\ recInput.likedMovieIds = <<>>)
        /\ recRequest[1].path = "/movie/popular"
               => recRequest[1].params = [page |-> recInput.page]
        /\ recRequest[1].path = "/discover/movie" =>
               /\ recRequest[1].params.sort_by = "popularity.desc"
               /\ recRequest[1].params.page = recInput.page
               /\ IF recGenreIds # <<>>
                  THEN /\ "with_genres" \in DOMAIN recRequest[1].params
                       /\ recRequest[1].params.with_genres = Join(recGenreIds)
                  ELSE "with_genres" \notin DOMAIN recRequest[1].params

\* liked movies and no genre tag: a discover query without a genre filter
C16_Witness ==
    /\ recResult # Pending
    /\ recGenreIds = <<>>
    /\ recInput.likedMovieIds # <<>>
    /\ recRequest[1].path = "/discover/movie"
    /\ "with_genres" \notin DOMAIN recRequest[1].params

\* the suffix of a tag id that is 'genre-' followed by an integer; the tag
\* ids of the inputs with that form are 'genre-18' and 'genre-35'
IntegerSuffixes(tags) ==
    LET isGenreInteger(tag) ==
            /\ tag.type = "genre"
            /\ \E n \in 0..99 : tag.id = GenreTagId(n)
        chosen == SelectSeq(tags, isGenreInteger)
    IN  [i \in 1..Len(chosen) |-> CHOOSE n \in 0..99 : chosen[i].id = GenreTagId(n)]

\* C17: the genre ids getTagBasedRecommendations derives are exactly the
\* integer suffixes of the genre-kind tags whose id is 'genre-' followed by
\* an integer; tags of another kind and genre-kind tags with another suffix
\* ('genre-abc', 'genre-12abc') contribute nothing.
C17_IntegerSuffixesOnly ==
    recResult # Pending => recGenreIds = IntegerSuffixes(recInput.tags)

-----------------------------------------------------------------------------
(* Properties of extractTagsFromMovies, checked under SpecExtract *)

\* the genre ids a movie carries, in either representation
CarriedGenreIds(movie) ==
    (IF Truthy(Prop(movie, "genre_ids")) THEN Range(movie.genre_ids.items) ELSE {})
    \cup (IF Truthy(Prop(movie, "genres")) THEN Ids(movie.genres.items) ELSE {})

OccurringGenreIds == UNION {CarriedGenreIds(exMovies[m]) : m \in 1..Len(exMovies)}

\* the number of input movies that carry the genre id
MovieCount(genreId) ==
    Cardinality({m \in 1..Len(exMovies) : genreId \in CarriedGenreIds(exMovies[m])})

\* C4: the frequency of a genre id is the number of input movies that carry
\* it: a movie that names the genre id twice contributes 1, not 2.
C4_CountOncePerMovie ==
    exTags.status # "pending" =>
        \A i \in 1..Len(exGenreMap) : exGenreMap[i][2] = MovieCount(exGenreMap[i][1])

RECURSIVE Flatten(_)
Flatten(movies) ==
    IF movies = <<>> THEN <<>>
    ELSE MovieGenreIds(Head(movies)) \o Flatten(Tail(movies))

\* the position at which the scan of the movie list first meets the genre
\* id, past the end when it never does
FirstSeen(genreId) ==
    LET flat == Flatten(exMovies)
    IN  IF genreId \notin Range(flat) THEN Len(flat) + 1
        ELSE CHOOSE i \in 1..Len(flat) :
                 flat[i] = genreId /\ \A j \in 1..(i - 1) : flat[j] # genreId

GenreOfTag(tag) == CHOOSE g \in ExGenreIds : GenreTagId(g) = tag.id

\* C5: the tags are ordered by descending frequency of their genre across
\* the input movies (a genre in more movies ranks above one in fewer), and
\* genres of equal frequency keep the order of their first encounter.
C5_OrderedByMovieFrequency ==
    exTags.status = "fulfilled" =>
        \A i, j \in 1..Len(exTags.value) :
            i < j =>
                LET gi == GenreOfTag(exTags.value[i])
                    gj == GenreOfTag(exTags.value[j])
                IN  \/ MovieCount(gi) > MovieCount(gj)
                    \/ /\ MovieCount(gi) = MovieCount(gj)
                       /\ FirstSeen(gi) < FirstSeen(gj)

\* C6: extractTagsFromMovies returns exactly one tag per distinct genre id
\* occurring in the input movies, with id 'genre-<genreId>', source 'auto'
\* and type 'genre', no id twice; an empty movie list yields an empty tag
\* list.
C6_OneTagPerGenre ==
    exPc = "done" =>
        /\ exTags.status = "fulfilled"
        /\ {exTags.value[i].id : i \in 1..Len(exTags.value)}
               = {GenreTagId(g) : g \in OccurringGenreIds}
        /\ Len(exTags.value) = Cardinality(OccurringGenreIds)
        /\ \A i \in 1..Len(exTags.value) :
               exTags.value[i].source = "auto" /\ exTags.value[i].type = "genre"
        /\ exMovies = <<>> => exTags = Fulfilled(<<>>)

\* the ids of the genre list the fetch delivered, none when it failed or
\* delivered no list
ListedGenreIds ==
    IF exGenres.kind = "ok" /\ "genres" \in DOMAIN exGenres.data
    THEN {exGenres.data.genres[i].id : i \in 1..Len(exGenres.data.genres)}
    ELSE {}

\* C19: extractTagsFromMovies never throws because of the genre list: when
\* the genre fetch fails or returns no usable list, or a genre id is not in
\* the list, it still returns one tag per genre id of the input movies, each
\* unresolved one named 'Unknown Genre'.
C19_NeverThrowsOnGenreList ==
    exTags # Pending =>
        /\ exTags.status = "fulfilled"
        /\ {exTags.value[i].id : i \in 1..Len(exTags.value)}
               = {GenreTagId(g) : g \in OccurringGenreIds}
        /\ Len(exTags.value) = Cardinality(OccurringGenreIds)
        /\ \A i \in 1..Len(exTags.value) :
               GenreOfTag(exTags.value[i]) \notin ListedGenreIds
                   => exTags.value[i].name = "Unknown Genre"

-----------------------------------------------------------------------------
(* Properties of the catalog operations, checked under SpecCatalog *)

\* the property of the payload an operation reads its result from
ExpectedProperty(op) ==
    CASE op = "getGenres" -> "genres"
      [] op = "getMovieDetails" -> "id"
      [] OTHER -> "results"

\* the request of the call failed: network failure, non-success status, or
\* a payload without the property the operation reads
CatalogFailure ==
    \/ catResponse.kind = "error"
    \/ /\ catResponse.kind = "ok"
       /\ ExpectedProperty(catCall.op) \notin DOMAIN catResponse.data

\* C11: for each catalog operation and each failure kind (network failure,
\* non-success status, malformed payload) the operation completes without
\* throwing and returns an empty list, null for getMovieDetails, and nothing
\* else.
C11_FailureGivesEmpty ==
    (catResult # Pending /\ CatalogFailure) =>
        /\ catResult.status = "fulfilled"
        /\ IF catCall.op = "getMovieDetails"
           THEN catResult.value = JsNull
           ELSE catResult.value # Undefined /\ catResult.value = <<>>

\* C18: for every mood getMoodBasedRecommendations issues exactly one
\* discover query sorted by descending popularity for the requested page
\* whose with_genres is the genre ids of the mood's entry in the table,
\* joined ("18,10749" for sad); for a value outside the six moods it settles
\* without an exception and issues the same query with an empty with_genres.
C18_MoodQuery ==
    (catCall.op = "getMoodBasedRecommendations" /\ catResult # Pending) =>
        /\ Len(catRequest) = 1
        /\ catRequest[1].path = "/discover/movie"
        /\ DOMAIN catRequest[1].params = {"with_genres", "sort_by", "page"}
        /\ catRequest[1].params.sort_by = "popularity.desc"
        /\ catRequest[1].params.page = catCall.page
        /\ catRequest[1].params.with_genres = Join(MoodGenreIds(catCall.mood))
        /\ catCall.mood = "sad" =>
               catRequest[1].params.with_genres = <<"1", "8", ",", "1", "0", "7", "4", "9">>
        /\ catCall.mood \notin Moods => catRequest[1].params.with_genres = <<>>
        /\ catResult.status = "fulfilled"

\* the query of the mood sad, page 2
C18_Witness ==
    /\ catCall.op = "getMoodBasedRecommendations"
    /\ catCall.mood = "sad"
    /\ catCall.page = 2
    /\ catResult # Pending
    /\ catRequest[1].params.with_genres = <<"1", "8", ",", "1", "0", "7", "4", "9">>
    /\ catRequest[1].params.page = 2

-----------------------------------------------------------------------------
(* Properties of the store with a failing storage, checked under SpecQuota *)

\* C12: when the write of a new snapshot fails, the in-memory profile keeps
\* the value the mutation produced, the failure is not fatal, and the store
\* keeps accepting and applying later mutations (the provider stays mounted,
\* so a next call is enabled).
C12_WriteFailureNotFatal ==
    "write" \in DOMAIN last =>
        /\ Applied => profile = (IF last.op = "mount" THEN LoadProfile(last.arg)
                                 ELSE Reduce(last.prev, <<last.op, last.arg>>))
        /\ mounted
        /\ ENABLED AddLikedMovie

-----------------------------------------------------------------------------
(* Properties of the store with the update queue, checked under SpecBatch  *)

\* C13: with no storage failure, after every committed mutation the item
\* stored under 'userProfile' is the serialization of the whole current
\* in-memory profile, also when several mutations were issued back to back
\* before the render.
C13_StorageFollowsProfile == effectPending \/ storage = JSONstringify(profile)

\* two calls before one render, each changing the profile
C13_Witness ==
    /\ last.op = "calls"
    /\ queue = <<>>
    /\ ~effectPending
    /\ Len(last.arg) = 2
    /\ last.arg[1][1] = "addLikedMovie"
    /\ last.arg[2][1] = "addTag"
    /\ Len(profile.likedMovies) = 1
    /\ Len(profile.tags) = 1
    /\ storage = JSONstringify(profile)

RECURSIVE SequentialFold(_, _)
\* the reducers applied one after the other, in the order of the calls
SequentialFold(state, updates) ==
    IF updates = <<>> THEN state
    ELSE SequentialFold(Reduce(state, Head(updates)), Tail(updates))

\* C14: for any sequence of mutation calls issued before the next render,
\* clearProfile included, the profile after the render is the sequential
\* fold of the reducers over the sequence: no update is lost.
C14_SequentialFold ==
    (last.op = "calls" /\ queue = <<>>) => profile = SequentialFold(last.prev, last.arg)

\* clearProfile followed by addLikedMovie on a profile that had a tag
C14_Witness ==
    /\ last.op = "calls"
    /\ queue = <<>>
    /\ Len(last.arg) = 2
    /\ last.arg[1][1] = "clearProfile"
    /\ last.arg[2][1] = "addLikedMovie"
    /\ last.prev.tags # <<>>
    /\ profile.tags = <<>>
    /\ Len(profile.likedMovies) = 1

====
